---- MODULE Spec2Model ----
(***************************************************************************)
(* The attraction retrieval engine of travel-agent-rag                     *)
(* (src/modules/rag_engine.py): the source file attractions.json, the      *)
(* three persisted artifacts (vector matrix, FAISS index, metadata list),  *)
(* the process-wide build flag and its lock, the caller threads running    *)
(* _ensure_index_is_built() / search_attractions(), and the background     *)
(* threads running _run_index_build().                                     *)
(*                                                                         *)
(* Granularity.  Every access to the flag is inside `with RAG_BUILD_LOCK`, *)
(* so a with-block is two steps: acquire, then body-and-release.  A file   *)
(* write or read is one step.  _is_index_complete() is one step: the       *)
(* program never deletes an artifact, so its three existence tests and its *)
(* read of the index file give the result of one evaluation at the time of *)
(* the read.  The loads of search_attractions() (lines 210-214) are one    *)
(* step and its query (lines 216-246), which touches no shared state, is   *)
(* another; both come after the completeness check of lines 203-207.       *)
(***************************************************************************)
EXTENDS Integers, Sequences, FiniteSets, TLC

\* ------------------------------------------------------------------ bounds
MaxEntries == 2      \* attractions in the source file, at most
MaxMutations == 1    \* rewrites of the source file in one run
MaxFaults == 1       \* provider and I/O failures in one run
MaxTopK == 2         \* top_k ranges over MinTopK..MaxTopK
NumCallers == 2      \* threads calling the retrieval functions
MaxBuilds == 2       \* background threads started in one run
MaxFullBatches == 2   \* whole batches of BatchSize texts in a source file
MaxIndexed == 3      \* rows of an index handed to the search alone
MaxCalls == 3        \* calls of the attractions or weather helpers in one run
NearLimit == 2       \* a stored call counter starts at most this far below its limit

MinTopK == 0 - 1

\* ------------------------------------------------- program constants
BatchSize == 50       \* rag_engine.py:96
OverFetchFactor == 5  \* rag_engine.py:227
MinSearchK == 20      \* rag_engine.py:227
ApiQuota == 480       \* attractions_api.py:105 and 210
DAILY_LIMIT == 1000   \* weather_api.py:10

\* --------------------------------------------------------------- strings
Paris == "Paris"
Rome == "Rome"
paris == "paris"
PARIS == "PARIS"
Oslo == "Oslo"

\* str.lower(), on the strings of the model.
Lower(s) ==
    CASE s = "Paris" -> "paris"
      [] s = "PARIS" -> "paris"
      [] s = "paris" -> "paris"
      [] s = "Rome" -> "rome"
      [] s = "Oslo" -> "oslo"
      [] s = "" -> ""

\* The city keys of attractions.json, and the destinations callers ask for.
StoredCities == <<Paris, Rome, paris>>
Destinations == {PARIS, Rome, Oslo}

Max(a, b) == IF a >= b THEN a ELSE b
Min(a, b) == IF a <= b THEN a ELSE b

\* ---------------------------------------------------------- source data
\* attractions.json: missing, not valid JSON, or a mapping city -> list of
\* raw items, kept as the ordered sequence of its (city, items) pairs.
Item(i) == [name |-> i]

\* Two assignments of the items to the city keys: shift 0 files item 1 under
\* "Paris", shift 1 files it under "Rome".
Shifts == {0, 1}
CityOf(i, shift) == StoredCities[((i - 1 + shift) % Len(StoredCities)) + 1]

ItemsOf(city, k, shift) ==
    LET UnderCity(item) == CityOf(item.name, shift) = city
    IN SelectSeq([i \in 1..k |-> Item(i)], UnderCity)

\* The mapping holding items 1..k, a city key for each city that has items.
Mapping(k, shift) ==
    LET RECURSIVE Groups(_)
        Groups(j) == IF j > Len(StoredCities) THEN <<>>
                     ELSE IF ItemsOf(StoredCities[j], k, shift) = <<>>
                          THEN Groups(j + 1)
                     ELSE <<[city |-> StoredCities[j],
                             items |-> ItemsOf(StoredCities[j], k, shift)]>>
                          \o Groups(j + 1)
    IN Groups(1)

MissingFile == [state |-> "missing", data |-> <<>>]
UnreadableFile == [state |-> "unreadable", data |-> <<>>]
DataFile(d) == [state |-> "ok", data |-> d]

Sources ==
    {MissingFile, UnreadableFile}
    \cup {DataFile(Mapping(k, shift)) : k \in 0..MaxEntries, shift \in Shifts}

\* load_and_normalize_data() raises: json.load on a file that is not JSON.
LoadRaises(src) == src.state = "unreadable"

\* load_and_normalize_data(): [] for a missing file, else one entry per item,
\* city by city in the mapping's order.  The text is determined by the item
\* and its city key.
TextOf(city, item) == <<item.name, city>>

load_and_normalize_data(src) ==
    LET RECURSIVE Flat(_)
        Flat(j) ==
            IF j > Len(src.data) THEN <<>>
            ELSE LET g == src.data[j]
                 IN [n \in 1..Len(g.items) |->
                        [city |-> g.city, name |-> g.items[n].name,
                         text |-> TextOf(g.city, g.items[n]),
                         meta |-> g.items[n]]]
                    \o Flat(j + 1)
    IN IF src.state = "missing" THEN <<>> ELSE Flat(1)

\* Variant: an empty list is not recognised as empty.
NotEntries_Never(entries) == FALSE

\* `if not entries`
NotEntries(entries) == entries = <<>>

\* ------------------------------------------------------------ artifacts
\* A persisted file: absent, present but unreadable (truncated by a failed
\* write), or holding data.
AbsentFile == [state |-> "absent", data |-> <<>>]
CorruptFile == [state |-> "corrupt", data |-> <<>>]
GoodFile(d) == [state |-> "ok", data |-> d]

Exists(f) == f.state # "absent"

\* The vector of a text: the index keeps one row per embedded text, in order.
\* np.save of the matrix: one row per vector.
EmbeddingsOf(texts) == texts

\* lines 118-122: each raw item with the city of its entry written into it.
MetadataToSave(entries) ==
    [i \in 1..Len(entries) |->
        [name |-> entries[i].meta.name, city |-> entries[i].city]]

\* The metadata record that belongs to an index row.
RecordOfRow(row) == [name |-> row[1], city |-> row[2]]

\* _is_index_complete(entries)
IsIndexComplete(emb, idx, meta, entries) ==
    IF ~(Exists(emb) /\ Exists(idx) /\ Exists(meta)) THEN FALSE
    ELSE IF idx.state = "corrupt" THEN FALSE
    ELSE Len(idx.data) = Len(entries)

\* ---------------------------------------------------------------- search
\* line 227
SearchK(top_k) == Max(top_k * OverFetchFactor, MinSearchK)

\* The rankings an exact L2 search can give n rows: the vectors come from the
\* provider (or from np.random), so any order of the rows is possible.
Rankings(n) ==
    {r \in [1..n -> 1..n] : \A i, j \in 1..n : i # j => r[i] # r[j]}

\* index.search(q_embed, search_k)[1][0]: the row ids (from 0) nearest first,
\* padded with -1 when the index holds fewer than search_k rows.
FaissSearch(n, ranking, search_k) ==
    [j \in 1..search_k |-> IF j <= n THEN ranking[j] - 1 ELSE 0 - 1]

\* meta[i] of a Python list: negative i counts from the end, and an i outside
\* -len..len-1 raises IndexError.
InRange(meta, i) == (0 - Len(meta)) <= i /\ i < Len(meta)
ListGet(meta, i) == IF i >= 0 THEN meta[i + 1] ELSE meta[Len(meta) + i + 1]

\* line 236
CityMatches(attraction, destination_city) ==
    Lower(attraction.city) = Lower(destination_city)

\* line 240
\* Variant: the loop stops one record late.
ReachedTopK_OffByOne(results, top_k) == Len(results) > top_k

ReachedTopK(results, top_k) == Len(results) >= top_k

\* lines 231-243: the filter loop over indices[0].
RECURSIVE FilterLoop(_, _, _, _, _, _)
FilterLoop(meta, indices, j, acc, destination_city, top_k) ==
    IF j > Len(indices) THEN [raised |-> FALSE, results |-> acc]
    ELSE IF ~InRange(meta, indices[j]) THEN [raised |-> TRUE, results |-> <<>>]
    ELSE LET attraction == ListGet(meta, indices[j])
             acc2 == IF CityMatches(attraction, destination_city)
                     THEN Append(acc, attraction) ELSE acc
         IN IF ReachedTopK(acc2, top_k)
            THEN [raised |-> FALSE, results |-> acc2]
            ELSE FilterLoop(meta, indices, j + 1, acc2, destination_city, top_k)

\* lines 226-246 on a loaded index (its rows) and metadata list.
SearchLoaded(rows, meta, ranking, destination_city, top_k) ==
    FilterLoop(meta, FaissSearch(Len(rows), ranking, SearchK(top_k)),
               1, <<>>, destination_city, top_k)

\* ----------------------------------------------------------------- state
VARIABLES
    source,        \* attractions.json
    embFile,       \* EMBEDDINGS_FILE
    idxFile,       \* INDEX_FILE
    metaFile,      \* META_FILE
    offline,       \* USE_OFFLINE_MODE
    inProgress,    \* RAG_BUILD_IN_PROGRESS
    lockHolder,    \* the thread inside `with RAG_BUILD_LOCK`, or NoThread
    caller,        \* per caller thread: position, locals, last outcome
    builder,       \* per background thread: position, locals
    mutations,     \* rewrites of the source file so far
    faults,        \* failures injected so far
    lastGood,      \* the artifacts as the last successful build left them
    answer,        \* the last search_attractions() call observed: its
                   \* arguments, the metadata it loaded, the row ids the
                   \* index gave it, and what it gave its caller
    counterFile,   \* attractions_api: COUNTER_FILE
    geoCache,      \* attractions_api: the cities of GEOID_CACHE_FILE
    httpRequests,  \* attractions_api: requests.post calls made so far
    apiCall,       \* the get_geo_id() / fetch_attractions() call under way
    apiCalls,      \* such calls started so far
    usageFile,     \* weather_api: COUNTER_FILE
    weatherCache,  \* weather_api: the cities with a fresh CACHE_FILE entry
    weatherRequests, \* weather_api: requests.get calls made so far
    weatherCall,   \* the get_weather() call under way
    weatherCalls   \* such calls started so far

ragVars == <<source, embFile, idxFile, metaFile, offline, inProgress, lockHolder,
             caller, builder, mutations, faults, lastGood, answer>>
apiVars == <<counterFile, geoCache, httpRequests, apiCall, apiCalls>>
weatherVars == <<usageFile, weatherCache, weatherRequests, weatherCall,
                 weatherCalls>>
vars == <<ragVars, apiVars, weatherVars>>

Callers == 1..NumCallers
Builders == 1..MaxBuilds
NoThread == <<"none", 0>>
CallerId(c) == <<"caller", c>>
BuilderId(b) == <<"builder", b>>

Ops == {"ensure", "search"}

IdleCaller ==
    [pc |-> "idle", op |-> "none", entries |-> <<>>, rows |-> <<>>,
     meta |-> <<>>, outcome |-> "none"]

NoAnswer ==
    [destination_city |-> "", top_k |-> 0, meta |-> <<>>, indices |-> <<>>,
     outcome |-> "none", results |-> <<>>]

IdleBuilder ==
    [pc |-> "idle", entries |-> <<>>, i |-> 0, embeddings |-> <<>>,
     response |-> "none", ok |-> FALSE]

\* attractions_api: COUNTER_FILE is absent, holds text that int() rejects,
\* or holds a count.
NoCounterFile == [state |-> "absent", count |-> 0]
GarbledCounterFile == [state |-> "garbled", count |-> 0]
CounterFileOf(n) == [state |-> "ok", count |-> n]

IdleApiCall ==
    [pc |-> "idle", op |-> "none", city |-> "", count |-> 0,
     geo_id |-> "none", refused |-> FALSE]

\* No call of the attractions helpers is made.
ApiIdle ==
    /\ counterFile = NoCounterFile
    /\ geoCache = {}
    /\ httpRequests = 0
    /\ apiCall = IdleApiCall
    /\ apiCalls = 0

\* weather_api: COUNTER_FILE is absent or holds {"date": ..., "count": ...}.
Today == "today"
Yesterday == "yesterday"
NoUsageFile == [state |-> "absent", date |-> "", count |-> 0]
UsageFileOf(date, n) == [state |-> "ok", date |-> date, count |-> n]

IdleWeatherCall == [pc |-> "idle", city |-> "", outcome |-> "none"]

\* No get_weather() call is made.
WeatherIdle ==
    /\ usageFile = NoUsageFile
    /\ weatherCache = {}
    /\ weatherRequests = 0
    /\ weatherCall = IdleWeatherCall
    /\ weatherCalls = 0

\* The artifacts a completed build of the entries leaves.
BuiltFrom(entries) ==
    LET texts == [n \in 1..Len(entries) |-> entries[n].text]
    IN <<GoodFile(EmbeddingsOf(texts)), GoodFile(EmbeddingsOf(texts)),
         GoodFile(MetadataToSave(entries))>>

NoArtifacts == <<AbsentFile, AbsentFile, AbsentFile>>

\* The process starts with the flag clear, on a disk that holds no artifact
\* or the artifacts an earlier run built from the source file of its time
\* (one with item 1 filed under "Paris").
PriorDisks ==
    {NoArtifacts}
    \cup {BuiltFrom(load_and_normalize_data(DataFile(Mapping(k, 0)))) :
            k \in 1..MaxEntries}

InitRag(sources, disks) ==
    /\ source \in sources
    /\ \E d \in disks : /\ embFile = d[1]
                        /\ idxFile = d[2]
                        /\ metaFile = d[3]
                        /\ lastGood = d
    /\ offline \in BOOLEAN
    /\ inProgress = FALSE
    /\ lockHolder = NoThread
    /\ caller = [c \in Callers |-> IdleCaller]
    /\ builder = [b \in Builders |-> IdleBuilder]
    /\ mutations = 0
    /\ faults = 0
    /\ answer = NoAnswer

InitWith(sources, disks) ==
    /\ InitRag(sources, disks)
    /\ ApiIdle
    /\ WeatherIdle

Init == InitWith(Sources, PriorDisks)

\* ------------------------------------------------------ caller threads
\* The call ends: its locals are gone, and the caller has a list or an
\* exception.  Only the paths of lines 174, 178, 184, 189 and 207 end with
\* results that do not depend on the query: None or [].
Returned(st) == [IdleCaller EXCEPT !.op = st.op, !.outcome = "returned"]
ReturnedEmpty(st) == [IdleCaller EXCEPT !.op = st.op, !.outcome = "returned_empty"]
Raised(st) == [IdleCaller EXCEPT !.op = st.op, !.outcome = "raised"]

\* _ensure_index_is_built() returns: to its caller, or into line 203.
AfterEnsure(st) ==
    IF st.op = "search" THEN [st EXCEPT !.pc = "search_check"]
    ELSE Returned(st)

\* A thread calls _ensure_index_is_built() or search_attractions().
Call(c, op) ==
    /\ caller[c].pc = "idle"
    /\ caller' = [caller EXCEPT ![c] =
                    [IdleCaller EXCEPT !.pc = "ensure_load", !.op = op]]
    /\ UNCHANGED <<source, embFile, idxFile, metaFile, offline, inProgress,
                   lockHolder, builder, mutations, faults, lastGood, answer,
                   apiVars, weatherVars>>

\* lines 172-178
EnsureLoad(c) ==
    /\ caller[c].pc = "ensure_load"
    /\ LET st == caller[c]
           entries == load_and_normalize_data(source)
       IN caller' = [caller EXCEPT ![c] =
            IF LoadRaises(source) THEN Raised(st)
            ELSE IF NotEntries(entries) THEN AfterEnsure(st)
            ELSE IF IsIndexComplete(embFile, idxFile, metaFile, entries)
                 THEN AfterEnsure(st)
            ELSE [st EXCEPT !.pc = "ensure_lock", !.entries = entries]]
    /\ UNCHANGED <<source, embFile, idxFile, metaFile, offline, inProgress,
                   lockHolder, builder, mutations, faults, lastGood, answer,
                   apiVars, weatherVars>>

\* line 181: `with RAG_BUILD_LOCK` entered.
EnsureAcquire(c) ==
    /\ caller[c].pc = "ensure_lock"
    /\ lockHolder = NoThread
    /\ lockHolder' = CallerId(c)
    /\ caller' = [caller EXCEPT ![c].pc = "ensure_check"]
    /\ UNCHANGED <<source, embFile, idxFile, metaFile, offline, inProgress,
                   builder, mutations, faults, lastGood, answer,
                   apiVars, weatherVars>>

EnsureCheck_IgnoreFlag(c) ==
    /\ caller[c].pc = "ensure_check"
    /\ lockHolder' = NoThread
    /\ caller' = [caller EXCEPT ![c].pc = "ensure_launch"]
    /\ UNCHANGED <<source, embFile, idxFile, metaFile, offline, inProgress,
                   builder, mutations, faults, lastGood, answer,
                   apiVars, weatherVars>>

\* lines 182-184, and the lock released on leaving the with-block.
EnsureCheck(c) ==
    /\ caller[c].pc = "ensure_check"
    /\ lockHolder' = NoThread
    /\ caller' = [caller EXCEPT ![c] =
            IF inProgress THEN AfterEnsure(caller[c])
            ELSE [caller[c] EXCEPT !.pc = "ensure_launch"]]
    /\ UNCHANGED <<source, embFile, idxFile, metaFile, offline, inProgress,
                   builder, mutations, faults, lastGood, answer,
                   apiVars, weatherVars>>

\* lines 187-189: threading.Thread(target=_run_index_build, ...).start()
\* The new thread is the first unused one of the pool.
FreeBuilder(pool) == CHOOSE b \in pool :
    builder[b].pc = "idle" /\ \A b2 \in pool : builder[b2].pc = "idle" => b <= b2

EnsureLaunch(c, pool) ==
    /\ caller[c].pc = "ensure_launch"
    /\ \E b \in pool : builder[b].pc = "idle"
    /\ builder' = [builder EXCEPT ![FreeBuilder(pool)] =
            [IdleBuilder EXCEPT !.pc = "start", !.entries = caller[c].entries]]
    /\ caller' = [caller EXCEPT ![c] = AfterEnsure(caller[c])]
    /\ UNCHANGED <<source, embFile, idxFile, metaFile, offline, inProgress,
                   lockHolder, mutations, faults, lastGood, answer,
                   apiVars, weatherVars>>

\* lines 203-207
SearchCheck(c) ==
    /\ caller[c].pc = "search_check"
    /\ LET st == caller[c]
           entries == load_and_normalize_data(source)
       IN caller' = [caller EXCEPT ![c] =
            IF LoadRaises(source) THEN Raised(st)
            ELSE IF ~IsIndexComplete(embFile, idxFile, metaFile, entries)
                 THEN ReturnedEmpty(st)
            ELSE [st EXCEPT !.pc = "search_load"]]
    /\ UNCHANGED <<source, embFile, idxFile, metaFile, offline, inProgress,
                   lockHolder, builder, mutations, faults, lastGood, answer,
                   apiVars, weatherVars>>

\* np.load / faiss.read_index / json.load of an artifact raises.
ReadRaises(f) == f.state # "ok"

\* lines 210-214: the three artifacts are read into locals.
SearchLoad(c) ==
    /\ caller[c].pc = "search_load"
    /\ caller' = [caller EXCEPT ![c] =
            IF ReadRaises(embFile) \/ ReadRaises(idxFile) \/ ReadRaises(metaFile)
            THEN Raised(caller[c])
            ELSE [caller[c] EXCEPT !.pc = "search_query",
                                   !.rows = idxFile.data, !.meta = metaFile.data]]
    /\ UNCHANGED <<source, embFile, idxFile, metaFile, offline, inProgress,
                   lockHolder, builder, mutations, faults, lastGood, answer,
                   apiVars, weatherVars>>

\* lines 216-246.  In online mode the query is embedded by the provider
\* (line 220), which may raise.
SearchQueryStep(c, destination_city, top_k, ranking, providerFails) ==
    /\ caller[c].pc = "search_query"
    /\ ranking \in Rankings(Len(caller[c].rows))
    /\ providerFails => (~offline /\ faults < MaxFaults)
    /\ faults' = IF providerFails THEN faults + 1 ELSE faults
    /\ LET out == SearchLoaded(caller[c].rows, caller[c].meta, ranking,
                               destination_city, top_k)
       IN caller' = [caller EXCEPT ![c] =
            IF providerFails \/ out.raised THEN Raised(caller[c])
            ELSE Returned(caller[c])]
    /\ UNCHANGED <<source, embFile, idxFile, metaFile, offline, inProgress,
                   lockHolder, builder, mutations, lastGood,
                   apiVars, weatherVars>>

SearchQuery(c, destination_city, top_k, ranking, providerFails) ==
    /\ SearchQueryStep(c, destination_city, top_k, ranking, providerFails)
    /\ UNCHANGED answer

\* The same step with the call observed.
SearchAnswer(c, destination_city, top_k, ranking) ==
    /\ SearchQueryStep(c, destination_city, top_k, ranking, FALSE)
    /\ LET out == SearchLoaded(caller[c].rows, caller[c].meta, ranking,
                               destination_city, top_k)
       IN answer' = [destination_city |-> destination_city, top_k |-> top_k,
                     meta |-> caller[c].meta,
                     indices |-> FaissSearch(Len(caller[c].rows), ranking,
                                             SearchK(top_k)),
                     outcome |-> IF out.raised THEN "raised" ELSE "returned",
                     results |-> out.results]

\* --------------------------------------------------- background threads
\* What a write leaves when it fails: the file as it was (the failure came
\* before the file was opened) or a truncated file.
WriteOutcomes == {"written", "failed_untouched", "failed_truncated"}
\* Variant: a write that changes nothing on disk.
AfterWrite_Nothing(f, outcome, data) == f

AfterWrite(f, outcome, data) ==
    IF outcome = "written" THEN GoodFile(data)
    ELSE IF outcome = "failed_truncated" THEN CorruptFile
    ELSE f

\* What the provider does with one batch: a vector per text, an exception,
\* or a response with one vector too few.  The thread's `response` is the
\* worst answer the provider has given to the build so far.
Responses == {"ok", "error", "short"}

Failing(b, isFault) ==
    /\ isFault => faults < MaxFaults
    /\ faults' = IF isFault THEN faults + 1 ELSE faults

\* Variant: no finally clause, a failed build ends the thread at once.
BuildAborted_NoFinally(st) == [IdleBuilder EXCEPT !.pc = "done", !.ok = FALSE]

\* build_embeddings() ends without an index: None returned or an exception,
\* both leading to the finally clause of _run_index_build (line 163).
BuildAborted(st) == [IdleBuilder EXCEPT !.pc = "finally", !.ok = FALSE]

\* Variant: the vectors of the batches before the failing one are kept and
\* saved.
ProviderRaised_KeepPartial(st) ==
    [st EXCEPT !.pc = "save_emb", !.response = "error"]

\* lines 105-107: the provider raised on the batch starting at text i; the
\* except clause returns None.
ProviderRaised(st) ==
    [BuildAborted(st) EXCEPT !.response = "error", !.i = st.i]

\* lines 155-156: `with RAG_BUILD_LOCK` entered by the new thread.
BuildAcquire(b) ==
    /\ builder[b].pc = "start"
    /\ lockHolder = NoThread
    /\ lockHolder' = BuilderId(b)
    /\ builder' = [builder EXCEPT ![b].pc = "set_flag"]
    /\ UNCHANGED <<source, embFile, idxFile, metaFile, offline, inProgress,
                   caller, mutations, faults, lastGood, answer,
                   apiVars, weatherVars>>

\* Variant: the build runs inside the with-block, the lock still held.
BuildSetFlag_KeepLock(b) ==
    /\ builder[b].pc = "set_flag"
    /\ inProgress' = TRUE
    /\ builder' = [builder EXCEPT ![b].pc = "embed"]
    /\ UNCHANGED <<source, embFile, idxFile, metaFile, offline, caller,
                   lockHolder, mutations, faults, lastGood, answer,
                   apiVars, weatherVars>>

\* line 156, and the lock released.
BuildSetFlag(b) ==
    /\ builder[b].pc = "set_flag"
    /\ inProgress' = TRUE
    /\ lockHolder' = NoThread
    /\ builder' = [builder EXCEPT ![b].pc = "embed"]
    /\ UNCHANGED <<source, embFile, idxFile, metaFile, offline, caller,
                   mutations, faults, lastGood, answer,
                   apiVars, weatherVars>>

\* lines 80-108: one pass of the batch loop, or the whole offline branch.
BuildEmbed(b, response) ==
    /\ builder[b].pc = "embed"
    /\ Failing(b, response # "ok")
    /\ response # "ok" => ~offline /\ ~NotEntries(builder[b].entries)
    /\ LET st == builder[b]
           texts == [n \in 1..Len(st.entries) |-> st.entries[n].text]
           batch == SubSeq(texts, st.i + 1, Min(st.i + BatchSize, Len(texts)))
           got == IF response = "short" THEN SubSeq(batch, 1, Len(batch) - 1)
                  ELSE batch
       IN builder' = [builder EXCEPT ![b] =
            IF NotEntries(st.entries) THEN BuildAborted(st)
            ELSE IF offline THEN
                 [st EXCEPT !.pc = "save_emb", !.embeddings = EmbeddingsOf(texts)]
            ELSE IF response = "error" THEN ProviderRaised(st)
            ELSE [st EXCEPT !.embeddings = st.embeddings \o EmbeddingsOf(got),
                            !.i = st.i + BatchSize,
                            !.response = IF st.response = "short" THEN "short"
                                         ELSE response,
                            !.pc = IF st.i + BatchSize >= Len(texts)
                                   THEN "save_emb" ELSE "embed"]]
    /\ UNCHANGED <<source, embFile, idxFile, metaFile, offline, inProgress,
                   lockHolder, caller, mutations, lastGood, answer,
                   apiVars, weatherVars>>

\* lines 110-111
BuildSaveEmbeddings(b, outcome) ==
    /\ builder[b].pc = "save_emb"
    /\ Failing(b, outcome # "written")
    /\ embFile' = AfterWrite(embFile, outcome, builder[b].embeddings)
    /\ builder' = [builder EXCEPT ![b] =
            IF outcome = "written" THEN [builder[b] EXCEPT !.pc = "write_index"]
            ELSE BuildAborted(builder[b])]
    /\ UNCHANGED <<source, idxFile, metaFile, offline, inProgress, lockHolder,
                   caller, mutations, lastGood, answer,
                   apiVars, weatherVars>>

\* lines 113-115.  embeddings_np.shape[1] raises IndexError for an empty
\* matrix, before the file is touched.
BuildWriteIndex(b, outcome) ==
    /\ builder[b].pc = "write_index"
    /\ Failing(b, outcome # "written")
    /\ LET empty == builder[b].embeddings = <<>>
       IN /\ idxFile' = IF empty THEN idxFile
                        ELSE AfterWrite(idxFile, outcome, builder[b].embeddings)
          /\ builder' = [builder EXCEPT ![b] =
                IF empty \/ outcome # "written" THEN BuildAborted(builder[b])
                ELSE [builder[b] EXCEPT !.pc = "write_meta", !.embeddings = <<>>,
                                        !.i = 0, !.response = "none"]]
    /\ UNCHANGED <<source, embFile, metaFile, offline, inProgress, lockHolder,
                   caller, mutations, lastGood, answer,
                   apiVars, weatherVars>>

\* lines 117-128
BuildWriteMeta(b, outcome) ==
    /\ builder[b].pc = "write_meta"
    /\ Failing(b, outcome # "written")
    /\ metaFile' = AfterWrite(metaFile, outcome, MetadataToSave(builder[b].entries))
    /\ builder' = [builder EXCEPT ![b] =
            IF outcome = "written"
            THEN [IdleBuilder EXCEPT !.pc = "finally", !.ok = TRUE]
            ELSE BuildAborted(builder[b])]
    /\ lastGood' = IF outcome = "written" THEN <<embFile, idxFile, metaFile'>>
                   ELSE lastGood
    /\ UNCHANGED <<source, embFile, idxFile, offline, inProgress, lockHolder,
                   caller, mutations, answer,
                   apiVars, weatherVars>>

\* lines 163-164: `with RAG_BUILD_LOCK` entered in the finally clause.
BuildFinally(b) ==
    /\ builder[b].pc = "finally"
    /\ lockHolder = NoThread
    /\ lockHolder' = BuilderId(b)
    /\ builder' = [builder EXCEPT ![b].pc = "clear_flag",
                                  ![b].response = "none", ![b].i = 0]
    /\ UNCHANGED <<source, embFile, idxFile, metaFile, offline, inProgress,
                   caller, mutations, faults, lastGood, answer,
                   apiVars, weatherVars>>

\* Variant: the thread ends without clearing the flag.
BuildClearFlag_KeepFlag(b) ==
    /\ builder[b].pc = "clear_flag"
    /\ lockHolder' = NoThread
    /\ builder' = [builder EXCEPT ![b].pc = "done"]
    /\ UNCHANGED <<source, embFile, idxFile, metaFile, offline, caller,
                   inProgress, mutations, faults, lastGood, answer,
                   apiVars, weatherVars>>

\* Variant: the thread ends inside the with-block, the lock still held.
BuildClearFlag_KeepLock(b) ==
    /\ builder[b].pc = "clear_flag"
    /\ inProgress' = FALSE
    /\ builder' = [builder EXCEPT ![b].pc = "done"]
    /\ UNCHANGED <<source, embFile, idxFile, metaFile, offline, caller,
                   lockHolder, mutations, faults, lastGood, answer,
                   apiVars, weatherVars>>

\* line 165, and the lock released; the thread ends.
BuildClearFlag(b) ==
    /\ builder[b].pc = "clear_flag"
    /\ inProgress' = FALSE
    /\ lockHolder' = NoThread
    /\ builder' = [builder EXCEPT ![b].pc = "done"]
    /\ UNCHANGED <<source, embFile, idxFile, metaFile, offline, caller,
                   mutations, faults, lastGood, answer,
                   apiVars, weatherVars>>

\* ----------------------------------------------------------- environment
\* attractions.json is rewritten (by the attractions fetch, outside this
\* subsystem).
MutateSource(s) ==
    /\ mutations < MaxMutations
    /\ s # source
    /\ source' = s
    /\ mutations' = mutations + 1
    /\ UNCHANGED <<embFile, idxFile, metaFile, offline, inProgress, lockHolder,
                   caller, builder, faults, lastGood, answer,
                   apiVars, weatherVars>>

\* One retrieval thread, one background thread, a source file that changes
\* and a provider and a disk that fail.
Next ==
    \/ \E op \in Ops : Call(1, op)
    \/ EnsureLoad(1)
    \/ EnsureAcquire(1)
    \/ EnsureCheck(1)
    \/ EnsureLaunch(1, {1})
    \/ SearchCheck(1)
    \/ SearchLoad(1)
    \/ \E d \in Destinations, k \in MinTopK..MaxTopK, pf \in BOOLEAN :
         \E r \in Rankings(Len(caller[1].rows)) : SearchQuery(1, d, k, r, pf)
    \/ BuildAcquire(1)
    \/ BuildSetFlag(1)
    \/ \E resp \in Responses : BuildEmbed(1, resp)
    \/ \E o \in WriteOutcomes : BuildSaveEmbeddings(1, o)
    \/ \E o \in WriteOutcomes : BuildWriteIndex(1, o)
    \/ \E o \in WriteOutcomes : BuildWriteMeta(1, o)
    \/ BuildFinally(1)
    \/ BuildClearFlag(1)
    \/ \E s \in Sources : MutateSource(s)

Spec == Init /\ [][Next]_vars

\* Several retrieval threads and the background threads they start, on a
\* source file that does not change, with a provider and a disk that work.
InitRace == InitWith({s \in Sources : load_and_normalize_data(s) # <<>>},
                     {NoArtifacts})

NextRace ==
    \/ \E c \in Callers, op \in Ops : Call(c, op)
    \/ \E c \in Callers : EnsureLoad(c)
    \/ \E c \in Callers : EnsureAcquire(c)
    \/ \E c \in Callers : EnsureCheck(c)
    \/ \E c \in Callers : EnsureLaunch(c, Builders)
    \/ \E c \in Callers : SearchCheck(c)
    \/ \E c \in Callers : SearchLoad(c)
    \/ \E c \in Callers, d \in Destinations, k \in MinTopK..MaxTopK :
         \E r \in Rankings(Len(caller[c].rows)) : SearchQuery(c, d, k, r, FALSE)
    \/ \E b \in Builders : BuildAcquire(b)
    \/ \E b \in Builders : BuildSetFlag(b)
    \/ \E b \in Builders : BuildEmbed(b, "ok")
    \/ \E b \in Builders : BuildSaveEmbeddings(b, "written")
    \/ \E b \in Builders : BuildWriteIndex(b, "written")
    \/ \E b \in Builders : BuildWriteMeta(b, "written")
    \/ \E b \in Builders : BuildFinally(b)
    \/ \E b \in Builders : BuildClearFlag(b)

RaceSpec == InitRace /\ [][NextRace]_vars

\* search_attractions() from line 210 on, as a function of what it loads and
\* of its arguments.  The search has passed line 207 and loaded the index
\* and the metadata list: both written by the build of the current source
\* file, or the index written by a rebuild whose metadata write then failed,
\* beside the metadata list of the build before.
IndexedSources ==
    {DataFile(Mapping(k, shift)) : k \in 1..MaxIndexed, shift \in Shifts}

DoneBuilder == [IdleBuilder EXCEPT !.pc = "done"]

InitSearch ==
    \E s1 \in IndexedSources, s2 \in IndexedSources :
        LET e1 == load_and_normalize_data(s1)
            e2 == load_and_normalize_data(s2)
        IN /\ source = s1
           /\ embFile = BuiltFrom(e1)[1]
           /\ idxFile = BuiltFrom(e1)[2]
           /\ metaFile = BuiltFrom(e2)[3]
           /\ lastGood = BuiltFrom(e2)
           /\ offline = TRUE
           /\ inProgress = FALSE
           /\ lockHolder = NoThread
           /\ builder = [b \in Builders |->
                 IF b = 1 /\ s1 # s2 THEN DoneBuilder ELSE IdleBuilder]
           /\ mutations = 0
           /\ faults = IF s1 # s2 THEN 1 ELSE 0
           /\ answer = NoAnswer
           /\ caller = [c \in Callers |->
                 IF c = 1
                 THEN [IdleCaller EXCEPT !.pc = "search_query", !.op = "search",
                                         !.rows = idxFile.data,
                                         !.meta = metaFile.data]
                 ELSE IdleCaller]
           /\ ApiIdle
           /\ WeatherIdle

NextSearch ==
    \E d \in Destinations, k \in MinTopK..MaxTopK :
        \E r \in Rankings(Len(caller[1].rows)) : SearchAnswer(1, d, k, r)

SearchSpec == InitSearch /\ [][NextSearch]_vars

\* The background thread has returned from _run_index_build(): nothing of
\* it is left, and a later launch starts a new thread.
BuildExit(b) ==
    /\ builder[b].pc = "done"
    /\ builder' = [builder EXCEPT ![b] = IdleBuilder]
    /\ UNCHANGED <<source, embFile, idxFile, metaFile, offline, inProgress,
                   lockHolder, caller, mutations, faults, lastGood, answer,
                   apiVars, weatherVars>>

\* One thread calling _ensure_index_is_built() again and again, and the
\* background threads it starts, on a non-empty source file that has stopped
\* changing, with a provider and a disk that fail a bounded number of times.
InitLive == InitWith({s \in Sources : load_and_normalize_data(s) # <<>>},
                     PriorDisks)

CallerStep(c) ==
    \/ Call(c, "ensure")
    \/ EnsureLoad(c)
    \/ EnsureCheck(c)
    \/ EnsureLaunch(c, Builders)

BuilderStep(b) ==
    \/ BuildSetFlag(b)
    \/ \E resp \in Responses : BuildEmbed(b, resp)
    \/ \E o \in WriteOutcomes : BuildSaveEmbeddings(b, o)
    \/ \E o \in WriteOutcomes : BuildWriteIndex(b, o)
    \/ \E o \in WriteOutcomes : BuildWriteMeta(b, o)
    \/ BuildClearFlag(b)
    \/ BuildExit(b)

NextLive ==
    \/ CallerStep(1)
    \/ EnsureAcquire(1)
    \/ \E b \in Builders : BuilderStep(b)
    \/ \E b \in Builders : BuildAcquire(b)
    \/ \E b \in Builders : BuildFinally(b)

\* Fair scheduling: a thread that can take a step takes it, and a thread
\* that asks for RAG_BUILD_LOCK again and again gets it.
Fairness ==
    /\ WF_vars(CallerStep(1))
    /\ SF_vars(EnsureAcquire(1))
    /\ \A b \in Builders :
         /\ WF_vars(BuilderStep(b))
         /\ SF_vars(BuildAcquire(b))
         /\ SF_vars(BuildFinally(b))

LiveSpec == InitLive /\ [][NextLive]_vars /\ Fairness

\* One such thread and one background thread at a time, on source files of
\* one entry more than a whole number
\* of batches, so that the batch loop of lines 96-107 runs once or several
\* times.
BatchedSources ==
    {DataFile(Mapping(q * BatchSize + 1, 0)) : q \in 0..MaxFullBatches}

InitBatch == InitWith(BatchedSources, PriorDisks)

NextBatch ==
    \/ Call(1, "ensure")
    \/ EnsureLoad(1)
    \/ EnsureAcquire(1)
    \/ EnsureCheck(1)
    \/ EnsureLaunch(1, {1})
    \/ BuildAcquire(1)
    \/ BuildFinally(1)
    \/ BuilderStep(1)

BatchSpec == InitBatch /\ [][NextBatch]_vars

\* A first search on a source file of three "Paris" records and two "Rome"
\* records, the cities in either order, in offline mode with nothing on
\* disk: the build it starts, run without failure, and the searches for
\* five records of "Paris" that follow.
ParisRecords == <<Item(1), Item(2), Item(3)>>
RomeRecords == <<Item(4), Item(5)>>

ScenarioSources ==
    {DataFile(<<[city |-> Paris, items |-> ParisRecords],
                [city |-> Rome, items |-> RomeRecords]>>),
     DataFile(<<[city |-> Rome, items |-> RomeRecords],
                [city |-> Paris, items |-> ParisRecords]>>)}

InitScenario ==
    /\ InitWith(ScenarioSources, {NoArtifacts})
    /\ offline

NextScenario ==
    \/ Call(1, "search")
    \/ EnsureLoad(1)
    \/ EnsureAcquire(1)
    \/ EnsureCheck(1)
    \/ EnsureLaunch(1, {1})
    \/ SearchCheck(1)
    \/ SearchLoad(1)
    \/ \E r \in Rankings(Len(caller[1].rows)) :
         SearchAnswer(1, Paris, Len(ParisRecords) + Len(RomeRecords), r)
    \/ BuildAcquire(1)
    \/ BuildSetFlag(1)
    \/ BuildEmbed(1, "ok")
    \/ BuildSaveEmbeddings(1, "written")
    \/ BuildWriteIndex(1, "written")
    \/ BuildWriteMeta(1, "written")
    \/ BuildFinally(1)
    \/ BuildClearFlag(1)

ScenarioSpec == InitScenario /\ [][NextScenario]_vars

\* ------------------------------------------------ attractions_api.py
ApiCities == {Paris, Rome}
ApiOps == {"get_geo_id", "fetch_attractions"}

\* _get_api_count(): 0 for a missing file and for text int() rejects.
GetApiCount(f) == IF f.state = "ok" THEN f.count ELSE 0

\* _increment_api_counter() with a writable counter file: the file after
\* lines 38-41.
IncrementApiCounter(f) == CounterFileOf(GetApiCount(f) + 1)

\* Variant: the quota test lets one more call through.
OverQuota_Late(count) == count > ApiQuota + 1

\* `if count > 480`
OverQuota(count) == count > ApiQuota

\* get_geo_id() returns geo_id: to its caller, or into fetch_attractions()
\* at line 185, which gives the default list when it got no geoId.
GeoReturns(st, geo_id, refused) ==
    IF st.op = "fetch_attractions" /\ geo_id # "none"
    THEN [st EXCEPT !.pc = "fetch_increment", !.geo_id = geo_id]
    ELSE [IdleApiCall EXCEPT !.op = st.op, !.city = st.city,
                             !.geo_id = geo_id, !.refused = refused]

\* get_geo_id(city) or fetch_attractions(city) is called; the attractions
\* cache of fetch_attractions is the empty dict of line 179.
ApiStart(op, city) ==
    /\ apiCall.pc = "idle"
    /\ apiCalls < MaxCalls
    /\ apiCalls' = apiCalls + 1
    /\ apiCall' = [IdleApiCall EXCEPT !.pc = "geo_lookup", !.op = op,
                                      !.city = city]
    /\ UNCHANGED <<counterFile, geoCache, httpRequests, ragVars, weatherVars>>

\* get_geo_id lines 86-91
GeoLookup ==
    /\ apiCall.pc = "geo_lookup"
    /\ apiCall' = IF apiCall.city \in geoCache
                  THEN GeoReturns(apiCall, "id", FALSE)
                  ELSE [apiCall EXCEPT !.pc = "geo_increment"]
    /\ UNCHANGED <<counterFile, geoCache, httpRequests, apiCalls, ragVars,
                   weatherVars>>

\* get_geo_id line 103
GeoIncrement ==
    /\ apiCall.pc = "geo_increment"
    /\ counterFile' = IncrementApiCounter(counterFile)
    /\ apiCall' = [apiCall EXCEPT !.pc = "geo_limit",
                                  !.count = GetApiCount(counterFile')]
    /\ UNCHANGED <<geoCache, httpRequests, apiCalls, ragVars, weatherVars>>

\* get_geo_id lines 105-107
GeoLimit ==
    /\ apiCall.pc = "geo_limit"
    /\ apiCall' = IF OverQuota(apiCall.count)
                  THEN GeoReturns(apiCall, "none", TRUE)
                  ELSE [apiCall EXCEPT !.pc = "geo_request"]
    /\ UNCHANGED <<counterFile, geoCache, httpRequests, apiCalls, ragVars,
                   weatherVars>>

\* The answers to the locations search: a geoId that gets cached, a geoId
\* whose cache write fails (logged by _save_cache), or none (another status,
\* no section, no numeric geoId, an exception).
GeoResponses == {"found", "found_unsaved", "nothing"}

\* get_geo_id lines 110-146
GeoRequest(response) ==
    /\ apiCall.pc = "geo_request"
    /\ httpRequests' = httpRequests + 1
    /\ geoCache' = IF response = "found" THEN geoCache \cup {apiCall.city}
                   ELSE geoCache
    /\ apiCall' = GeoReturns(apiCall,
                             IF response = "nothing" THEN "none" ELSE "id",
                             FALSE)
    /\ UNCHANGED <<counterFile, apiCalls, ragVars, weatherVars>>

\* fetch_attractions line 208
FetchIncrement ==
    /\ apiCall.pc = "fetch_increment"
    /\ counterFile' = IncrementApiCounter(counterFile)
    /\ apiCall' = [apiCall EXCEPT !.pc = "fetch_limit",
                                  !.count = GetApiCount(counterFile')]
    /\ UNCHANGED <<geoCache, httpRequests, apiCalls, ragVars, weatherVars>>

\* fetch_attractions lines 210-212
FetchLimit ==
    /\ apiCall.pc = "fetch_limit"
    /\ apiCall' = IF OverQuota(apiCall.count)
                  THEN [IdleApiCall EXCEPT !.op = apiCall.op,
                                           !.city = apiCall.city,
                                           !.geo_id = apiCall.geo_id,
                                           !.refused = TRUE]
                  ELSE [apiCall EXCEPT !.pc = "fetch_request"]
    /\ UNCHANGED <<counterFile, geoCache, httpRequests, apiCalls, ragVars,
                   weatherVars>>

\* fetch_attractions lines 215-241: whatever the answer, a list is returned
\* and nothing is persisted.
FetchRequest ==
    /\ apiCall.pc = "fetch_request"
    /\ httpRequests' = httpRequests + 1
    /\ apiCall' = [IdleApiCall EXCEPT !.op = apiCall.op, !.city = apiCall.city,
                                      !.geo_id = apiCall.geo_id]
    /\ UNCHANGED <<counterFile, geoCache, apiCalls, ragVars, weatherVars>>

\* The retrieval subsystem at rest.
RagIdle ==
    /\ InitRag({MissingFile}, {NoArtifacts})
    /\ offline = TRUE

\* A sequence of get_geo_id() and fetch_attractions() calls, one after the
\* other, on a writable counter file that is absent, garbled, or holds a
\* count near the quota, and on any geoId cache.
InitApi ==
    /\ RagIdle
    /\ WeatherIdle
    /\ counterFile \in {NoCounterFile, GarbledCounterFile}
          \cup {CounterFileOf(n) : n \in (ApiQuota - NearLimit)..(ApiQuota + 1)}
    /\ geoCache \in SUBSET ApiCities
    /\ httpRequests = 0
    /\ apiCall = IdleApiCall
    /\ apiCalls = 0

NextApi ==
    \/ \E op \in ApiOps, city \in ApiCities : ApiStart(op, city)
    \/ GeoLookup
    \/ GeoIncrement
    \/ GeoLimit
    \/ \E response \in GeoResponses : GeoRequest(response)
    \/ FetchIncrement
    \/ FetchLimit
    \/ FetchRequest

ApiSpec == InitApi /\ [][NextApi]_vars

\* ---------------------------------------------------- weather_api.py
\* _load_counter(): the stored record, or a fresh one when the file is
\* missing or its date is not today's.
LoadCounter(f) ==
    IF f.state = "absent" \/ f.date # Today
    THEN [date |-> Today, count |-> 0]
    ELSE [date |-> f.date, count |-> f.count]

\* _increment_counter(): the file after _save_counter(data).
IncrementCounter(f) == UsageFileOf(Today, LoadCounter(f).count + 1)

\* Variant: the limit test lets one more call through.
AtDailyLimit_Late(count) == count > DAILY_LIMIT

\* `if counter["count"] >= DAILY_LIMIT`
AtDailyLimit(count) == count >= DAILY_LIMIT

WeatherDone(outcome) ==
    [IdleWeatherCall EXCEPT !.city = weatherCall.city, !.outcome = outcome]

\* get_weather(city) is called.
WeatherStart(city) ==
    /\ weatherCall.pc = "idle"
    /\ weatherCalls < MaxCalls
    /\ weatherCalls' = weatherCalls + 1
    /\ weatherCall' = [IdleWeatherCall EXCEPT !.pc = "cache", !.city = city]
    /\ UNCHANGED <<usageFile, weatherCache, weatherRequests, ragVars, apiVars>>

\* get_weather lines 47-52
WeatherCacheCheck ==
    /\ weatherCall.pc = "cache"
    /\ weatherCall' = IF weatherCall.city \in weatherCache
                      THEN WeatherDone("cached")
                      ELSE [weatherCall EXCEPT !.pc = "limit"]
    /\ UNCHANGED <<usageFile, weatherCache, weatherRequests, weatherCalls,
                   ragVars, apiVars>>

\* get_weather lines 55-57
WeatherLimit ==
    /\ weatherCall.pc = "limit"
    /\ weatherCall' = IF AtDailyLimit(LoadCounter(usageFile).count)
                      THEN WeatherDone("limit")
                      ELSE [weatherCall EXCEPT !.pc = "request"]
    /\ UNCHANGED <<usageFile, weatherCache, weatherRequests, weatherCalls,
                   ragVars, apiVars>>

\* The answers to the weather request: a report, a status other than 200, a
\* body without the expected fields (an exception after the increment), or
\* requests.get raising (a timeout, before the increment).
WeatherResponses == {"weather", "not_200", "malformed", "raised"}

\* get_weather lines 60-79
WeatherRequest(response) ==
    /\ weatherCall.pc = "request"
    /\ weatherRequests' = weatherRequests + 1
    /\ usageFile' = IF response = "raised" THEN usageFile
                    ELSE IncrementCounter(usageFile)
    /\ weatherCache' = IF response = "weather"
                       THEN weatherCache \cup {weatherCall.city}
                       ELSE weatherCache
    /\ weatherCall' = WeatherDone(
            IF response = "weather" THEN "weather"
            ELSE IF response = "not_200" THEN "error" ELSE "unavailable")
    /\ UNCHANGED <<weatherCalls, ragVars, apiVars>>

\* CACHE_TTL has passed for a city: its cache entry is no longer used.
CacheExpires(city) ==
    /\ city \in weatherCache
    /\ weatherCache' = weatherCache \ {city}
    /\ UNCHANGED <<usageFile, weatherRequests, weatherCall, weatherCalls,
                   ragVars, apiVars>>

\* A sequence of get_weather() calls on one date, one after the other, on a
\* counter file that is absent or was written today or the day before with
\* a count of 0 or near the limit.
InitWeather ==
    /\ RagIdle
    /\ ApiIdle
    /\ usageFile \in {NoUsageFile}
          \cup {UsageFileOf(d, n) :
                  d \in {Today, Yesterday},
                  n \in {0} \cup (DAILY_LIMIT - NearLimit)..DAILY_LIMIT}
    /\ weatherCache \in SUBSET ApiCities
    /\ weatherRequests = 0
    /\ weatherCall = IdleWeatherCall
    /\ weatherCalls = 0

NextWeather ==
    \/ \E city \in ApiCities : WeatherStart(city)
    \/ WeatherCacheCheck
    \/ WeatherLimit
    \/ \E response \in WeatherResponses : WeatherRequest(response)
    \/ \E city \in ApiCities : CacheExpires(city)

WeatherSpec == InitWeather /\ [][NextWeather]_vars

\* ================================================================ claims
\* build_embeddings() is executing in background thread b.
Rebuilding(b) ==
    builder[b].pc \in {"embed", "save_emb", "write_index", "write_meta"}

\* Background thread b has been started.
Started(b) == builder[b].pc # "idle"

\* C1: in every reachable state, whatever the interleaving of the threads
\* calling _ensure_index_is_built() / search_attractions(), at most one
\* background rebuild is executing build_embeddings().
C1_AtMostOneRebuild ==
    Cardinality({b \in Builders : Rebuilding(b)}) <= 1

\* C2: when one caller alone calls again and again, on an index that is not
\* built, with a source file that does not change and a provider that
\* works, at most one build_embeddings() execution is ever started.
C2_OneSequenceForOneCaller ==
    (\A c \in Callers \ {1} : caller[c].op = "none")
        => Cardinality({b \in Builders : Started(b)}) <= 1

\* The index rows and the metadata list are those of one build: as many
\* records as rows, and each record the one embedded for its row.
SameBuild(rows, meta) ==
    /\ Len(rows) = Len(meta)
    /\ \A i \in 1..Len(rows) : RecordOfRow(rows[i]) = meta[i]

\* C3: a search that runs beside a rebuild never works on a torn artifact
\* set: the index and the metadata list it has loaded come from the same
\* build.
C3_NoTornRead ==
    \A c \in Callers :
        caller[c].pc = "search_query" => SameBuild(caller[c].rows, caller[c].meta)

\* C4: when a rebuild fails, at whatever point, the three persisted
\* artifacts are those of the last successful build.
C4_FailedBuildLeavesLastGood ==
    [][\A b \in Builders :
          (Rebuilding(b) /\ builder'[b].pc = "finally" /\ ~builder'[b].ok)
              => <<embFile', idxFile', metaFile'>> = lastGood]_vars

\* The index cannot be used for the current source data: an artifact is
\* missing or unreadable, or the index does not have one row per entry.
IndexUnavailable ==
    \/ ~IsIndexComplete(embFile, idxFile, metaFile, load_and_normalize_data(source))
    \/ ReadRaises(embFile) \/ ReadRaises(idxFile) \/ ReadRaises(metaFile)

\* C5: a search whose completeness check (lines 203-207) runs while the
\* index is unavailable returns [] there; the loads of lines 210-214 do not
\* raise; and no query with a valid top_k raises on what has been loaded.
C5_UnavailableGivesEmpty ==
    /\ [](\A c \in Callers :
            caller[c].pc = "search_query" =>
                \A d \in Destinations, k \in 1..MaxTopK,
                   r \in Rankings(Len(caller[c].rows)) :
                     ~SearchLoaded(caller[c].rows, caller[c].meta, r, d, k).raised)
    /\ [][\A c \in Callers :
            /\ (/\ caller[c].pc = "search_check"
                /\ caller'[c] # caller[c]
                /\ ~LoadRaises(source)
                /\ IndexUnavailable)
                  => /\ caller'[c].pc = "idle"
                     /\ caller'[c].outcome = "returned_empty"
            /\ (caller[c].pc = "search_load" /\ caller'[c].pc = "idle")
                  => caller'[c].outcome # "raised"]_vars

SameCityIgnoringCase(a, b) == Lower(a) = Lower(b)

\* C6: for every destination, every top_k >= 1 and whatever the index and
\* the metadata list hold, a search that returns gives at most top_k
\* records, each of the destination city up to case.
C6_AtMostTopKAllInCity ==
    (answer.outcome = "returned" /\ answer.top_k >= 1)
        => /\ Len(answer.results) <= answer.top_k
           /\ \A i \in 1..Len(answer.results) :
                SameCityIgnoringCase(answer.results[i].city,
                                     answer.destination_city)

\* C6 witness: a search for 2 records of PARIS returned "Paris" and "paris"
\* from a metadata list that also holds another city.
C6_Witness ==
    /\ answer.outcome = "returned"
    /\ answer.top_k = 2
    /\ answer.destination_city = PARIS
    /\ Len(answer.results) = 2
    /\ answer.results[1].city # answer.results[2].city
    /\ \E i \in 1..Len(answer.meta) : answer.meta[i].city = Rome

\* The rows the index gave (the padding left out) that have a metadata
\* record of the destination city.
MatchingCandidates(meta, indices, destination_city) ==
    {j \in 1..Len(indices) :
        /\ indices[j] >= 0
        /\ indices[j] < Len(meta)
        /\ CityMatches(meta[indices[j] + 1], destination_city)}

\* C7: when the candidates hold M >= k records of the destination city, the
\* search returns exactly k records, all of that city.
C7_ExactlyKWhenEnough ==
    \A c \in Callers :
        caller[c].pc = "search_query" =>
            \A d \in Destinations, k \in 1..MaxTopK,
               r \in Rankings(Len(caller[c].rows)) :
                LET out == SearchLoaded(caller[c].rows, caller[c].meta, r, d, k)
                    indices == FaissSearch(Len(caller[c].rows), r, SearchK(k))
                IN Cardinality(MatchingCandidates(caller[c].meta, indices, d)) >= k
                    => /\ ~out.raised
                       /\ Len(out.results) = k
                       /\ \A i \in 1..Len(out.results) :
                            SameCityIgnoringCase(out.results[i].city, d)

\* C8: a search called with top_k < 1 raises and gives no list.
C8_InvalidTopKRaises ==
    (answer.outcome # "none" /\ answer.top_k < 1) => answer.outcome = "raised"

\* The source file gives no entries: it is missing or holds an empty mapping.
EmptySource ==
    ~LoadRaises(source) /\ load_and_normalize_data(source) = <<>>

\* C9: with empty source data _ensure_index_is_built() returns at line 174,
\* starting no background thread (so no provider call is made), and
\* search_attractions() returns [] at line 207 without raising, whatever
\* the artifacts on disk; and no rebuild ever runs on an empty entry list.
C9_EmptySourceIsNoOp ==
    /\ [](\A b \in Builders :
            builder[b].pc \in {"start", "set_flag"} \/ Rebuilding(b)
                => builder[b].entries # <<>>)
    /\ [][EmptySource =>
            \A c \in Callers :
                /\ (caller[c].pc = "ensure_load" /\ caller'[c] # caller[c])
                     => /\ caller'[c].pc \in {"idle", "search_check"}
                        /\ caller'[c].outcome # "raised"
                        /\ builder' = builder
                /\ (caller[c].pc = "search_check" /\ caller'[c] # caller[c])
                     => /\ caller'[c].pc = "idle"
                        /\ caller'[c].outcome = "returned_empty"]_vars

\* C9 witness: a search has returned [] on an empty source file while a
\* complete artifact set is on disk.
C9_Witness ==
    /\ EmptySource
    /\ caller[1].op = "search"
    /\ caller[1].pc = "idle"
    /\ caller[1].outcome = "returned_empty"
    /\ ~ReadRaises(embFile) /\ ~ReadRaises(idxFile) /\ ~ReadRaises(metaFile)

\* _is_index_complete() for a list of n entries.
CompleteFor(n) ==
    IsIndexComplete(embFile, idxFile, metaFile, [i \in 1..n |-> i])

\* C10: with no rebuild running, the completeness check is true for N
\* entries iff the last successful build embedded exactly N entries; and a
\* rewrite of the source file that changes the entries of a complete index
\* leaves the check false for the new entries until a rebuild follows.
C10_CompleteIffLastBuild ==
    /\ []((\A b \in Builders : ~Rebuilding(b)) =>
            \A n \in 0..(MaxEntries + 1) :
                CompleteFor(n) <=> (lastGood[2].state = "ok"
                                    /\ Len(lastGood[2].data) = n))
    /\ [][(/\ source' # source
           /\ IsIndexComplete(embFile, idxFile, metaFile,
                              load_and_normalize_data(source))
           /\ ~LoadRaises(source')
           /\ load_and_normalize_data(source') # load_and_normalize_data(source))
            => ~IsIndexComplete(embFile', idxFile', metaFile',
                                load_and_normalize_data(source'))]_vars

\* C11: under fair scheduling, whenever the in-progress flag is true it is
\* false again later, whether build_embeddings() returned an index, returned
\* None or raised.
C11_FlagAlwaysCleared == inProgress ~> ~inProgress

\* C11 witness: a rebuild has failed and its thread has cleared the flag.
C11_Witness ==
    /\ faults > 0
    /\ ~inProgress
    /\ \E b \in Builders : builder[b].pc = "done" /\ ~builder[b].ok

\* The next step of caller c's call can be taken now.
CanStep(c) ==
    LET pc == caller[c].pc
    IN /\ pc = "ensure_load" => ENABLED EnsureLoad(c)
       /\ pc = "ensure_check" => ENABLED EnsureCheck(c)
       /\ (pc = "ensure_launch" /\ builder[1].pc = "idle")
            => ENABLED EnsureLaunch(c, {1})
       /\ pc = "search_check" => ENABLED SearchCheck(c)
       /\ pc = "search_load" => ENABLED SearchLoad(c)
       /\ pc = "search_query" =>
            ENABLED (\E d \in Destinations, k \in MinTopK..MaxTopK :
                       \E r \in Rankings(Len(caller[c].rows)) :
                          SearchQuery(c, d, k, r, FALSE))

\* C12: a call of _ensure_index_is_built() or search_attractions() never
\* waits for a rebuild: whatever the background thread is doing, the call's
\* next step can be taken, except the entry of `with RAG_BUILD_LOCK`, which
\* needs the lock free; and no background thread holds the lock while it
\* is in build_embeddings().
C12_CallersNeverWait ==
    /\ CanStep(1)
    /\ (caller[1].pc = "ensure_lock" /\ lockHolder = NoThread)
         => ENABLED EnsureAcquire(1)
    /\ \A b \in Builders : lockHolder = BuilderId(b) => ~Rebuilding(b)

\* C12 witness: search_attractions() has returned [] while the rebuild that
\* its _ensure_index_is_built() found running is still writing artifacts.
C12_Witness ==
    /\ caller[1].pc = "idle"
    /\ caller[1].op = "search"
    /\ caller[1].outcome = "returned_empty"
    /\ inProgress
    /\ builder[1].pc \in {"save_emb", "write_index", "write_meta"}

\* _is_index_complete() for the entries of the source file as it is now.
CompleteForSource ==
    IsIndexComplete(embFile, idxFile, metaFile, load_and_normalize_data(source))

C14_ShortResponseAborts ==
    [][\A b \in Builders :
          (builder[b].response = "short" /\ builder'[b] # builder[b])
              => /\ <<embFile', idxFile', metaFile'>> = <<embFile, idxFile, metaFile>>
                 /\ builder'[b].pc \in {"finally", "clear_flag", "done"}]_vars

\* C15: when the provider raises on a batch, the first, a middle one or the
\* last, build_embeddings() ends there with no index, the vectors of the
\* earlier batches are dropped, and neither that step nor any later step of
\* the thread writes an artifact.
C15_ProviderErrorWritesNothing ==
    [][\A b \in Builders :
          /\ (builder[b].pc = "embed" /\ builder'[b].response = "error")
               => /\ builder'[b].pc = "finally"
                  /\ ~builder'[b].ok
                  /\ builder'[b].embeddings = <<>>
          /\ (builder'[b].response = "error" /\ builder'[b] # builder[b])
               => <<embFile', idxFile', metaFile'>> = <<embFile, idxFile, metaFile>>
          /\ (builder[b].response = "error" /\ builder'[b] # builder[b])
               => <<embFile', idxFile', metaFile'>> = <<embFile, idxFile, metaFile>>]_vars

\* C15 witness: the provider raised on the middle batch of three, after the
\* first batch had been embedded, and the build has ended without an index.
C15_Witness ==
    \E b \in Builders :
        /\ builder[b].response = "error"
        /\ builder[b].pc = "finally"
        /\ builder[b].i = BatchSize
        /\ Len(load_and_normalize_data(source)) > 2 * BatchSize

\* C16: in every reachable state, in the middle of a rebuild too, when the
\* three artifacts are on disk and readable the metadata list has as many
\* records as the index has vectors.
C16_MetadataMatchesIndex ==
    (/\ Exists(embFile) /\ Exists(idxFile) /\ Exists(metaFile)
     /\ ~ReadRaises(idxFile) /\ ~ReadRaises(metaFile))
        => Len(metaFile.data) = Len(idxFile.data)

\* One of the three artifacts is missing or cannot be read.
ArtifactDamaged ==
    ReadRaises(embFile) \/ ReadRaises(idxFile) \/ ReadRaises(metaFile)

\* C17: while one of the three artifacts is missing or corrupt the
\* completeness check is false for every number of entries, and a search
\* that reaches its check (lines 203-207) returns [] there and reads no
\* artifact.
C17_DamagedIsNotBuilt ==
    /\ [](ArtifactDamaged => \A n \in 0..(MaxEntries + 1) : ~CompleteFor(n))
    /\ [][\A c \in Callers :
            (/\ caller[c].pc = "search_check"
             /\ caller'[c] # caller[c]
             /\ ~LoadRaises(source)
             /\ ArtifactDamaged)
                => /\ caller'[c].pc = "idle"
                   /\ caller'[c].outcome = "returned_empty"]_vars

\* The source file is missing, or is there but is not valid JSON.
MissingOrUnreadable == source.state \in {"missing", "unreadable"}

\* C18: with the source file missing or unreadable the load of line 172
\* gives [] and does not raise, so _ensure_index_is_built() returns without
\* starting a thread, and the load and check of lines 203-207 make
\* search_attractions() return [].
C18_UnreadableSourceIsEmpty ==
    [][MissingOrUnreadable =>
         \A c \in Callers :
            /\ (caller[c].pc = "ensure_load" /\ caller'[c] # caller[c])
                 => /\ caller'[c].outcome # "raised"
                    /\ caller'[c].pc \in {"idle", "search_check"}
                    /\ builder' = builder
            /\ (caller[c].pc = "search_check" /\ caller'[c] # caller[c])
                 => /\ caller'[c].pc = "idle"
                    /\ caller'[c].outcome = "returned_empty"]_vars

\* C19: on the source of three "Paris" and two "Rome" records, in either
\* city order, once the build has succeeded the completeness check is true
\* for the five entries, and every search for five records of "Paris" that
\* gets past the check returns exactly the three "Paris" records.
C19_ScenarioA ==
    /\ (builder[1].ok =>
          /\ Len(load_and_normalize_data(source)) = 5
          /\ CompleteForSource)
    /\ (answer.outcome # "none" =>
          /\ answer.outcome = "returned"
          /\ Len(answer.results) = Len(ParisRecords)
          /\ \A i \in 1..Len(answer.results) : answer.results[i].city = Paris
          /\ {answer.results[i].name : i \in 1..Len(answer.results)}
               = {ParisRecords[i].name : i \in 1..Len(ParisRecords)})

\* C20: in offline mode the stand-in vectors are reproducible, so a search
\* repeated with the same destination and the same top_k on the same
\* metadata list returns the same result as the search before it.
C20_OfflineSearchRepeats ==
    [][(/\ offline
        /\ answer.outcome = "returned"
        /\ answer'.outcome = "returned"
        /\ answer'.destination_city = answer.destination_city
        /\ answer'.top_k = answer.top_k
        /\ answer'.meta = answer.meta)
           => answer'.results = answer.results]_vars

\* C21: the embedding provider is called only by the background threads:
\* no step of a thread that runs search_attractions() is an answer of the
\* provider, so none is one of its failures.
C21_ProviderOnlyInRebuild ==
    [][\A c \in Callers :
          (caller[c].pc = "search_query" /\ caller'[c] # caller[c])
              => faults' = faults]_vars

\* C22: the flag is read and set in one critical section: a caller that saw
\* the flag false and released the lock finds it true already, and so does
\* every caller that returned after starting the thread (the thread has not
\* run yet).
C22_FlagSetWhenLaunching ==
    /\ \A c \in Callers : caller[c].pc = "ensure_launch" => inProgress
    /\ \A b \in Builders : builder[b].pc = "start" => inProgress

\* C23: a caller that reads the flag true inside _ensure_index_is_built()
\* leaves the function there: its step starts no thread, calls no provider,
\* and changes neither the flag nor a persisted artifact.
C23_BusyEnsureDoesNothing ==
    [][\A c \in Callers :
          (caller[c].pc = "ensure_check" /\ inProgress /\ caller'[c] # caller[c])
              => /\ caller'[c].pc \in {"idle", "search_check"}
                 /\ caller'[c].pc = "idle" => caller'[c].outcome = "returned"
                 /\ UNCHANGED <<builder, inProgress, faults,
                                embFile, idxFile, metaFile>>]_vars

\* Caller 2 has returned from _ensure_index_is_built() while the one rebuild
\* ever started was running and nothing of the index was on disk.
C23_Witness ==
    /\ caller[2].pc = "idle"
    /\ caller[2].op = "ensure"
    /\ caller[2].outcome = "returned"
    /\ inProgress
    /\ Rebuilding(1)
    /\ builder[2].pc = "idle"
    /\ ~Exists(idxFile)

\* The rows the index gave, in its order and the padding left out, whose
\* metadata record is of the destination city.
MatchingRows(meta, indices, destination_city) ==
    SelectSeq(indices, LAMBDA i :
        i >= 0 /\ i < Len(meta) /\ CityMatches(meta[i + 1], destination_city))

\* C24: one index query of max(top_k*5, 20) candidates, and the result is
\* the first min(top_k, M) of the M candidates of the destination city, in
\* the order the index gave them: fewer than top_k when fewer match.
C24_FirstMatchesOfOneQuery ==
    (answer.outcome = "returned" /\ answer.top_k >= 1)
        => LET rows == MatchingRows(answer.meta, answer.indices,
                                    answer.destination_city)
               n == Min(answer.top_k, Len(rows))
           IN /\ Len(answer.indices) = Max(answer.top_k * 5, 20)
              /\ Len(answer.results) = n
              /\ \A j \in 1..n : answer.results[j] = answer.meta[rows[j] + 1]

\* C27: the records a search returns are those of distinct rows of the
\* index: no record is returned twice, also when the index holds fewer
\* vectors than the over-fetch size and pads its answer with -1.
C27_NoRecordTwice ==
    answer.outcome = "returned"
        => /\ Len(answer.results)
                <= Cardinality({j \in 1..Len(answer.indices) :
                                    answer.indices[j] >= 0})
           /\ \A i, j \in 1..Len(answer.results) :
                i # j => answer.results[i] # answer.results[j]

\* Background thread b is between the statement that sets the flag and the
\* one that clears it: inside build_embeddings() or on its way through the
\* finally clause.
Executing(b) ==
    Rebuilding(b) \/ builder[b].pc \in {"finally", "clear_flag"}

\* C25: the flag is false when the process starts, and in every reachable
\* state where it is true some rebuild thread is executing: the flag is
\* never left true with no rebuild running.
C25_FlagTrueOnlyWhileRebuilding ==
    /\ ~inProgress
    /\ [](inProgress => \E b \in Builders : Executing(b))

\* The flag is true for the second thread, the first having ended after a
\* failure.
C25_Witness ==
    /\ inProgress
    /\ builder[1].pc = "done"
    /\ ~builder[1].ok
    /\ Rebuilding(2)

\* C26: when a build succeeds, the metadata list it has persisted holds one
\* record per entry, each with the city key of its entry, and record i is
\* the record of the entry whose vector is row i of the persisted index.
C26_MetadataCityAlignedWithRows ==
    [][\A b \in Builders :
          (builder[b].pc = "write_meta" /\ builder'[b].ok)
              => LET entries == builder[b].entries
                 IN /\ Len(metaFile'.data) = Len(entries)
                    /\ \A i \in 1..Len(entries) :
                         /\ metaFile'.data[i].city = entries[i].city
                         /\ i <= Len(idxFile'.data)
                         /\ idxFile'.data[i] = EmbeddingsOf(<<entries[i].text>>)[1]]_vars

\* The thread inside `with RAG_BUILD_LOCK` is at the flag read of line 183
\* or at a flag write of line 156 or 165, and threads at those lines hold
\* the lock; its next step, which releases the lock, can be taken.
LockOnlyAroundFlag ==
    /\ \A c \in Callers :
         /\ lockHolder = CallerId(c) <=> caller[c].pc = "ensure_check"
         /\ lockHolder = CallerId(c) => ENABLED EnsureCheck(c)
    /\ \A b \in Builders :
         /\ lockHolder = BuilderId(b)
              <=> builder[b].pc \in {"set_flag", "clear_flag"}
         /\ (lockHolder = BuilderId(b) /\ builder[b].pc = "set_flag")
              => ENABLED BuildSetFlag(b)
         /\ (lockHolder = BuilderId(b) /\ builder[b].pc = "clear_flag")
              => ENABLED BuildClearFlag(b)

\* C28: RAG_BUILD_LOCK is held only for the flag read or write and is
\* released on every path: no thread holds it while embedding or writing
\* artifacts, and every thread that asks for it gets it.
C28_LockReleasedOnEveryPath ==
    /\ [](LockOnlyAroundFlag)
    /\ (caller[1].pc = "ensure_lock") ~> (caller[1].pc = "ensure_check")
    /\ \A b \in Builders :
         /\ (builder[b].pc = "start") ~> (builder[b].pc = "set_flag")
         /\ (builder[b].pc = "finally") ~> (builder[b].pc = "clear_flag")

\* The caller and a newly started thread both wait for the lock while the
\* other rebuild thread holds it in its finally clause.
C28_Witness ==
    /\ caller[1].pc = "ensure_lock"
    /\ builder[1].pc = "start"
    /\ builder[2].pc = "clear_flag"
    /\ lockHolder = BuilderId(2)

\* C29: in a sequence of get_geo_id() and fetch_attractions() calls on a
\* writable counter file, a request is sent only by a call whose own
\* increment left the persisted counter at 480 or less; once the counter is
\* above 480 it stays there and no request is sent; and a lookup that finds
\* the city in the geoId cache sends no request and leaves the counter as it
\* is.
C29_QuotaGatesRequests ==
    [][/\ httpRequests' # httpRequests
            => /\ counterFile.state = "ok"
               /\ apiCall.count = counterFile.count
               /\ counterFile.count <= ApiQuota
       /\ GetApiCount(counterFile) > ApiQuota
            => /\ httpRequests' = httpRequests
               /\ GetApiCount(counterFile') > ApiQuota
       /\ (apiCall.pc = "geo_lookup" /\ apiCall.city \in geoCache
              /\ apiCall' # apiCall)
            => /\ httpRequests' = httpRequests
               /\ counterFile' = counterFile
               /\ apiCall'.geo_id = "id"
               /\ apiCall'.pc \in {"idle", "fetch_increment"}]_vars

\* fetch_attractions() found the geoId in the cache and was then refused by
\* the quota test, its increment having taken the counter to 481, after an
\* earlier request had been sent.
C29_Witness ==
    /\ apiCall.pc = "idle"
    /\ apiCall.op = "fetch_attractions"
    /\ apiCall.refused
    /\ apiCall.geo_id = "id"
    /\ apiCall.city \in geoCache
    /\ counterFile = CounterFileOf(ApiQuota + 1)
    /\ httpRequests >= 1

\* C30: in a sequence of get_weather() calls on one date the persisted
\* counter never exceeds DAILY_LIMIT, no request is sent when the counter
\* read is at the limit or above, and a counter stored under another date is
\* read as 0: the limit test then lets the call through and the next
\* increment stores 1.
C30_DailyLimitHolds ==
    /\ [](usageFile.count <= DAILY_LIMIT)
    /\ [][/\ weatherRequests' # weatherRequests
               => (usageFile.date = Today => usageFile.count < DAILY_LIMIT)
          /\ (usageFile.state = "ok" /\ usageFile.date = Today
                 /\ usageFile.count >= DAILY_LIMIT)
               => /\ weatherRequests' = weatherRequests
                  /\ usageFile' = usageFile
          /\ (usageFile.state = "ok" /\ usageFile.date # Today)
               => /\ (weatherCall.pc = "limit" /\ weatherCall' # weatherCall)
                       => weatherCall'.pc = "request"
                  /\ usageFile' # usageFile
                       => usageFile' = UsageFileOf(Today, 1)]_vars

\* A call was refused at the limit, the requests before it having brought
\* today's counter to DAILY_LIMIT.
C30_Witness ==
    /\ weatherCall.pc = "idle"
    /\ weatherCall.outcome = "limit"
    /\ usageFile = UsageFileOf(Today, DAILY_LIMIT)
    /\ weatherRequests >= 2

====
